---- MODULE Spec2Model ----
(***************************************************************************)
(* A model of indicatif's ProgressBar (src/src/progress_bar.rs): one bar   *)
(* cell (Arc<Mutex<BarState>>), the worker threads that hold handles to    *)
(* it, the steady-tick driver threads spawned by enable_steady_tick, and   *)
(* the terminal the bar is painted on.                                     *)
(*                                                                         *)
(* BarState / ProgressState / ProgressDrawTarget live in state.rs and      *)
(* draw_target.rs, which are not among the source files at hand; their     *)
(* operations (update_and_draw, draw, the finish family, drawable) are     *)
(* written down from the specification text.                               *)
(***************************************************************************)
EXTENDS Integers, FiniteSets, Sequences, TLC

\* ------------------------------------------------------------------ bounds
\* u64::MAX scaled down: the saturation point of position, length and tick,
\* and the "unknown length" sentinel (!0).
MaxU64 == 3
\* Worker threads that may hold a ProgressBar handle.
NThreads == 2
\* Threads that thread::spawn can hand out to steady_tick.
MaxDrivers == 2
\* Calls on the bar's handles that the threads make in one run, all told.
MaxCalls == 2

Threads == 1..NThreads
Drivers == 1..MaxDrivers
\* The steady-tick intervals callers pass (milliseconds, scaled down).
Intervals == {1, 2}
\* The positions a bar is constructed with (with_position).
InitPositions == {0, 1}
\* The positions and lengths callers pass to set_position and set_length.
Positions == {0, 2, MaxU64}
Lengths == {1, MaxU64}
\* The deltas callers pass to inc and inc_length.
Deltas == {1, 2}
\* Message / prefix texts, by number; 0 is the empty text a new bar has.
Texts == 0..1
\* What a suspend thunk may return.
ThunkResults == 0..1
\* tick_thread = None.
None == 0

VARIABLES
    state,        \* BarState.state: the ProgressState record
    draw_target,  \* BarState.draw_target: "term" (direct), "hidden" or "remote"
    poisoned,     \* the Mutex is poisoned
    strong,       \* the Arc's strong count; 0 = the BarState has been dropped
    thr,          \* per worker thread: position in its current call, handle
    drv,          \* per driver thread: position in steady_tick's loop
    calls,        \* the number of calls made so far
    incs,         \* history: the inc calls begun since construction
    obs,          \* what the last step did to the outside: terminal write, return value
    clock,        \* what Instant::now() returns
    now,          \* per worker thread: the Instant its current call has read (0 between calls)
    last_draw,    \* the active target's last-draw timestamp
    upaint,       \* history: the timestamp of the active target's last unforced paint, -1 = none
    linked,       \* the shared region (MultiProgress) holds a slot for this bar
    target_id,    \* the number of targets the bar has had before the active one
    sleep_ms      \* per driver thread: steady_tick's local ms, the interval it sleeps

\* The part of the state that the untimed specification leaves alone.
tvars == <<clock, now, last_draw, upaint, linked, target_id, sleep_ms>>

vars == <<state, draw_target, poisoned, strong, thr, drv, calls, incs, obs, tvars>>

\* ------------------------------------------------------------- pure parts

\* (mutant) wrapping instead of saturating addition.
SatAdd_Wrap(a, b) == (a + b) % (MaxU64 + 1)

\* u64::saturating_add
SatAdd(a, b) == IF a + b > MaxU64 THEN MaxU64 ELSE a + b

\* ProgressState::is_finished
is_finished(st) == st.status = "Finished"

\* A fraction as <<numerator, denominator>>, the denominator positive.
\* Without the final clamp.
fraction_Unclamped(st) ==
    IF st.len = 0 THEN <<1, 1>>
    ELSE IF st.len = MaxU64 THEN <<0, 1>>
    ELSE <<st.pos, st.len>>

\* ProgressState::fraction: 1.0 for the length 0, 0.0 for the unknown length
\* (!0), otherwise position / length clamped to [0, 1].
fraction(st) ==
    IF st.len = 0 THEN <<1, 1>>
    ELSE IF st.len = MaxU64 THEN <<0, 1>>
    ELSE IF st.pos >= st.len THEN <<1, 1>>
    ELSE <<st.pos, st.len>>

\* The tick rule shared by tick, inc, set_position, set_prefix, set_message:
\*   if state.steady_tick == 0 || state.tick == 0 { tick = tick.saturating_add(1) }
TickRule(st) ==
    IF st.steady_tick = 0 \/ st.tick = 0
    THEN [st EXCEPT !.tick = SatAdd(st.tick, 1)]
    ELSE st

TickF(st) == TickRule(st)

\* (mutant) inc that clamps the position to the length.
IncF_Clamped(st, delta) ==
    TickRule([st EXCEPT !.pos = IF SatAdd(st.pos, delta) > st.len THEN st.len
                                ELSE SatAdd(st.pos, delta)])

IncF(st, delta) == TickRule([st EXCEPT !.pos = SatAdd(st.pos, delta)])

SetPositionF(st, pos) == TickRule([st EXCEPT !.pos = pos])

SetLengthF(st, len) == [st EXCEPT !.len = len]

IncLengthF(st, delta) == [st EXCEPT !.len = SatAdd(st.len, delta)]

SetPrefixF(st, prefix) == TickRule([st EXCEPT !.prefix = prefix])

SetMessageF(st, msg) == TickRule([st EXCEPT !.message = msg])

\* (mutant) reset_eta also resets the status.
ResetEtaF_Status(st) == [st EXCEPT !.status = "InProgress"]

\* est.reset(pos) and started = now touch only the estimator and the start
\* time, which the model does not carry.
ResetEtaF(st) == st

ResetElapsedF(st) == st

\* The closure of reset's third update_and_draw.
ResetF(st) == [st EXCEPT !.pos = 0, !.status = "InProgress"]

\* (mutant) a driver that ticks whatever the counter.
DriverTickF_Always(st) == [st EXCEPT !.tick = SatAdd(st.tick, 1)]

\* The driver's tick: if state.tick != 0 { tick = tick.saturating_add(1) }
DriverTickF(st) ==
    IF st.tick # 0 THEN [st EXCEPT !.tick = SatAdd(st.tick, 1)] ELSE st

\* (mutant) the exit test without the interval.
DriverShouldExit_FinishedOnly(st) == is_finished(st)

\* (mutant) the exit test without is_finished().
DriverShouldExit_IntervalOnly(st) == st.steady_tick = 0

\* The driver's exit test.
DriverShouldExit(st) == is_finished(st) \/ st.steady_tick = 0

\* (mutant) an exit that leaves the driver recorded.
DriverExitF_KeepsRecord(st) == [st EXCEPT !.steady_tick = 0]

\* The driver's exit: steady_tick = 0; tick_thread = None.
DriverExitF(st) == [st EXCEPT !.steady_tick = 0, !.tick_thread = None]

\* (mutant) enable_steady_tick without its is_some() test.
DriverRecorded_Never(st) == FALSE

\* enable_steady_tick returns early when a driver is recorded.
DriverRecorded(st) == st.tick_thread # None

\* (mutant) the driver is given a clone of the Arc instead of a Weak.
AfterDowngrade_Clone(s) == s + 1

\* Arc::downgrade leaves the strong count alone: the driver owns nothing.
AfterDowngrade(s) == s

\* (mutant) a dropped reference is leaked.
AfterDrop_Leak(s) == s

\* Dropping an Arc (a handle, or the driver's upgraded reference).
AfterDrop(s) == s - 1

\* Weak::upgrade succeeds while the strong count is positive.
UpgradeSucceeds(s) == s > 0

\* The finish family (BarState, from the specification).
FinishOps ==
    {"finish", "finish_at_current_pos", "finish_with_message", "finish_and_clear",
     "abandon", "abandon_with_message", "finish_using_style"}

\* finish snaps the position to the length when the length is known.
SnapToLen(st) == IF st.len # MaxU64 THEN [st EXCEPT !.pos = st.len] ELSE st

MarkFinished(st) == [st EXCEPT !.status = "Finished"]

FinishF(st) == MarkFinished(SnapToLen(st))

FinishAtCurrentPosF(st) == MarkFinished(st)

FinishWithMessageF(st, msg) == FinishF([st EXCEPT !.message = msg])

FinishAndClearF(st) == MarkFinished(st)

AbandonF(st) == MarkFinished(st)

AbandonWithMessageF(st, msg) == MarkFinished([st EXCEPT !.message = msg])

\* finish_using_style: the style's on-finish policy decides leave (0) or
\* clear (1).
FinishUsingStyleF(st, policy) == IF policy = 1 THEN FinishAndClearF(st) ELSE FinishF(st)

\* The frame a finishing draw leaves: erased for the clearing calls.
Clears(op, arg) ==
    \/ op = "finish_and_clear"
    \/ op = "finish_using_style" /\ arg = 1

\* Calls whose draw is forced (finish family, suspend, println).
Forced(op) == op \in FinishOps \/ op \in {"suspend", "println"}

\* (mutant) a target that never reports itself hidden.
is_hidden_Never(target) == FALSE

\* ProgressDrawTarget::is_hidden
is_hidden(target) == target = "hidden"

\* BarState::draw(force, now): whether the attempt paints.  Hidden: never.
\* Direct: always when forced; otherwise the throttle decides (either way).
Paints(target, force) ==
    IF is_hidden(target) THEN {FALSE}
    ELSE IF force THEN {TRUE}
    ELSE {TRUE, FALSE}

\* The closure a call hands to update_and_draw, by call and stage.  reset is
\* three calls of update_and_draw (reset_eta, reset_elapsed, its own);
\* enable_steady_tick's second stage is self.tick().
Closure(op, arg, stage, st) ==
    CASE op = "tick" -> TickF(st)
      [] op = "inc" -> IncF(st, arg)
      [] op = "set_position" -> SetPositionF(st, arg)
      [] op = "set_length" -> SetLengthF(st, arg)
      [] op = "inc_length" -> IncLengthF(st, arg)
      [] op = "set_prefix" -> SetPrefixF(st, arg)
      [] op = "set_message" -> SetMessageF(st, arg)
      [] op = "reset_eta" -> ResetEtaF(st)
      [] op = "reset_elapsed" -> ResetElapsedF(st)
      [] op = "reset" -> IF stage = 1 THEN ResetEtaF(st)
                         ELSE IF stage = 2 THEN ResetElapsedF(st)
                         ELSE ResetF(st)
      [] op = "enable_steady_tick" -> TickF(st)
      [] op = "finish" -> FinishF(st)
      [] op = "finish_at_current_pos" -> FinishAtCurrentPosF(st)
      [] op = "finish_with_message" -> FinishWithMessageF(st, arg)
      [] op = "finish_and_clear" -> FinishAndClearF(st)
      [] op = "abandon" -> AbandonF(st)
      [] op = "abandon_with_message" -> AbandonWithMessageF(st, arg)
      [] op = "finish_using_style" -> FinishUsingStyleF(st, arg)
      [] op = "println" -> st

\* The number of update_and_draw stages of a call.
LastStage(op) ==
    IF op = "reset" THEN 3
    ELSE IF op = "enable_steady_tick" THEN 2
    ELSE 1

\* ------------------------------------------------------------------ state

NewState(len, pos) ==
    [pos |-> pos, len |-> len, tick |-> 0, steady_tick |-> 0,
     status |-> "InProgress", tick_thread |-> None, message |-> 0, prefix |-> 0]

\* A thread between calls; owns: it holds a ProgressBar handle.
Idle(owns) == [pc |-> "idle", op |-> "none", arg |-> 0, stage |-> 0, owns |-> owns]

\* A thread that panicked: unwinding dropped whatever it held.
Dead == [pc |-> "dead", op |-> "none", arg |-> 0, stage |-> 0, owns |-> FALSE]

\* A step that writes nothing to the terminal and returns nothing.
NoObs == [write |-> "none", ret |-> <<>>]

Wrote(kind) == [write |-> kind, ret |-> <<>>]

\* The inc calls begun so far: the position the bar was constructed with and
\* the sum of their deltas (capped at MaxU64, past which the saturated sum no
\* longer changes); only: no call other than inc / enable_steady_tick /
\* disable_steady_tick has been made.
NoIncs == [p0 |-> 0, sum |-> 0, only |-> FALSE]

\* What the constructors give: new(len) draws to the terminal, hidden() has
\* the unknown length and a hidden target; new_spinner() is new(!0).
Constructed == {<<1, "term">>, <<MaxU64, "term">>, <<MaxU64, "hidden">>}

\* Time stands still: the clock is not read by what the untimed
\* specifications check.
Untimed ==
    /\ clock = 0
    /\ now = [t \in Threads |-> 0]
    /\ last_draw = 0
    /\ upaint = -1
    /\ linked = FALSE
    /\ target_id = 0
    /\ sleep_ms = [d \in Drivers |-> 0]

\* Who holds a handle when the threads start: the constructing thread alone,
\* or every worker thread after being handed a clone.
InitOwners == {{1}, Threads}

\* A bar built by one of the constructors, possibly with_position(pos), its
\* handle possibly cloned to the other threads; a WeakProgressBar was taken
\* with downgrade().
Init ==
    /\ \E c \in Constructed, pos \in InitPositions :
          /\ state = NewState(c[1], pos)
          /\ draw_target = c[2]
          /\ incs = [p0 |-> pos, sum |-> 0, only |-> TRUE]
    /\ poisoned = FALSE
    /\ \E owners \in InitOwners :
          /\ strong = Cardinality(owners)
          /\ thr = [t \in Threads |-> Idle(t \in owners)]
    /\ drv = [d \in Drivers |-> "none"]
    /\ calls = 0
    /\ obs = NoObs
    /\ Untimed

\* ------------------------------------------------------------- the Mutex

\* No thread holds the MutexGuard.
LockFree ==
    /\ \A t \in Threads : thr[t].pc \notin {"locked", "draw", "thunk", "relock"}
    /\ \A d \in Drivers : drv[d] # "draw"

\* (mutant) handles that do not wait for the Mutex.
CanLock_Open == TRUE

\* self.state.lock() in a handle's call returns once the guard is free.
CanLock == LockFree

\* (mutant) a driver that does not wait for the Mutex.
DriverCanLock_Open == TRUE

\* state_arc.lock() in steady_tick returns once the guard is free.
DriverCanLock == LockFree

\* (mutant) lock() on a poisoned Mutex recovered: the caller carries on as
\* if its call had returned.
Panic_Recovered(t) ==
    /\ thr' = [thr EXCEPT ![t] = Idle(TRUE)]
    /\ obs' = NoObs
    /\ UNCHANGED <<state, draw_target, poisoned, strong, drv, incs, calls>>

\* lock().unwrap() on a poisoned Mutex: the caller panics, and unwinding
\* drops its handle.
Panic(t) ==
    /\ thr' = [thr EXCEPT ![t] = Dead]
    /\ strong' = AfterDrop(strong)
    /\ obs' = NoObs
    /\ UNCHANGED <<state, draw_target, poisoned, drv, incs, calls>>

CanCall(t) == thr[t].pc = "idle" /\ thr[t].owns /\ calls < MaxCalls /\ CanLock

\* The calls that leave the inc history alone.
IncCompatible == {"inc", "enable_steady_tick"}

IncsAfter(op, arg) ==
    IF ~incs.only \/ op \notin IncCompatible THEN NoIncs
    ELSE IF op = "inc" THEN [incs EXCEPT !.sum = SatAdd(@, arg)]
    ELSE incs

\* self.state.lock().unwrap() at the head of a call built on update_and_draw
\* or on a BarState finish method: the caller now holds the guard.
Begin(t, op, arg) ==
    /\ CanCall(t)
    /\ IF poisoned THEN Panic(t)
       ELSE /\ thr' = [thr EXCEPT ![t] = [@ EXCEPT !.pc = "locked", !.op = op,
                                                    !.arg = arg, !.stage = 1]]
            /\ incs' = IncsAfter(op, arg)
            /\ obs' = NoObs
            /\ UNCHANGED <<state, draw_target, poisoned, strong, drv>>
            /\ calls' = calls + 1
    /\ UNCHANGED tvars

\* ------------------------------------------- calls built on update_and_draw

tick(t) == Begin(t, "tick", 0)

inc(t, delta) == Begin(t, "inc", delta)

set_position(t, pos) == Begin(t, "set_position", pos)

set_length(t, len) == Begin(t, "set_length", len)

inc_length(t, delta) == Begin(t, "inc_length", delta)

set_prefix(t, prefix) == Begin(t, "set_prefix", prefix)

set_message(t, msg) == Begin(t, "set_message", msg)

reset_eta(t) == Begin(t, "reset_eta", 0)

reset_elapsed(t) == Begin(t, "reset_elapsed", 0)

\* reset begins with self.reset_eta().
reset(t) == Begin(t, "reset", 0)

\* ------------------------------------------------------- the finish family

finish(t) == Begin(t, "finish", 0)

finish_at_current_pos(t) == Begin(t, "finish_at_current_pos", 0)

finish_with_message(t, msg) == Begin(t, "finish_with_message", msg)

finish_and_clear(t) == Begin(t, "finish_and_clear", 0)

abandon(t) == Begin(t, "abandon", 0)

abandon_with_message(t, msg) == Begin(t, "abandon_with_message", msg)

finish_using_style(t, policy) == Begin(t, "finish_using_style", policy)

\* println borrows the Progress Record immutably and draws, forced, the
\* message's lines above the bar; the text of the line is not modelled.
println(t) == Begin(t, "println", 0)

\* ----------------------------------------- the stages of update_and_draw

\* The closure is FnOnce: it consumes what it captured.  Of a call's
\* arguments only the style's policy is read again, by the draw.
ArgAfter(op, arg) == IF op = "finish_using_style" THEN arg ELSE 0

\* f(&mut self.state): the caller, holding the guard, applies its closure.
Mutate(t) ==
    /\ thr[t].pc = "locked"
    /\ state' = Closure(thr[t].op, thr[t].arg, thr[t].stage, state)
    /\ thr' = [thr EXCEPT ![t] = [@ EXCEPT !.pc = "draw", !.arg = ArgAfter(thr[t].op, thr[t].arg)]]
    /\ obs' = NoObs
    /\ UNCHANGED <<draw_target, poisoned, strong, drv, incs, calls>>
    /\ UNCHANGED tvars

\* self.draw(force, now), then the guard is dropped: the call returns, or
\* goes on to its next update_and_draw.  suspend ends the same way, with its
\* forced draw, and returns what the thunk returned.
Draw(t) ==
    /\ thr[t].pc = "draw"
    /\ \E p \in Paints(draw_target, Forced(thr[t].op)) :
          obs' = [write |-> IF ~p THEN "none"
                            ELSE IF Clears(thr[t].op, thr[t].arg) THEN "erase"
                            ELSE IF thr[t].op = "println" THEN "line"
                            ELSE "paint",
                  ret |-> IF thr[t].op = "suspend" THEN <<thr[t].arg>> ELSE <<>>]
    /\ thr' = [thr EXCEPT ![t] =
                 IF thr[t].stage < LastStage(thr[t].op)
                 THEN [@ EXCEPT !.pc = "gap", !.stage = @ + 1]
                 ELSE Idle(TRUE)]
    /\ UNCHANGED <<state, draw_target, poisoned, strong, drv, incs, calls>>
    /\ UNCHANGED tvars

\* The next self.state.lock().unwrap() of a call that locks more than once.
Continue(t) ==
    /\ thr[t].pc = "gap"
    /\ CanLock
    /\ IF poisoned THEN Panic(t)
       ELSE /\ thr' = [thr EXCEPT ![t].pc = "locked"]
            /\ obs' = NoObs
            /\ UNCHANGED <<state, draw_target, poisoned, strong, drv, incs, calls>>
    /\ UNCHANGED tvars

\* ------------------------------------------------------ enable_steady_tick

\* thread::spawn hands out the first thread not running.
IsFree(d) == drv[d] = "none" /\ \A e \in Drivers : e < d => drv[e] # "none"

\* The first critical section of enable_steady_tick: set the interval; when
\* no driver is recorded, spawn one on a Weak, record it, release the guard
\* and go on to self.tick().
enable_steady_tick(t, ms) ==
    /\ CanCall(t)
    /\ IF poisoned THEN Panic(t)
       ELSE /\ incs' = IncsAfter("enable_steady_tick", ms)
            /\ obs' = NoObs
            /\ UNCHANGED <<draw_target, poisoned>>
            /\ calls' = calls + 1
            /\ IF DriverRecorded(state)
               THEN /\ state' = [state EXCEPT !.steady_tick = ms]
                    /\ UNCHANGED <<strong, thr, drv>>
               ELSE \E d \in Drivers :
                    /\ IsFree(d)
                    /\ state' = [state EXCEPT !.steady_tick = ms, !.tick_thread = d]
                    /\ drv' = [drv EXCEPT ![d] = "sleep"]
                    /\ strong' = AfterDowngrade(strong)
                    /\ thr' = [thr EXCEPT ![t] =
                                 [@ EXCEPT !.pc = "gap", !.op = "enable_steady_tick",
                                           !.arg = ms, !.stage = 2]]
    /\ UNCHANGED tvars

disable_steady_tick(t) == enable_steady_tick(t, 0)

\* --------------------------------------------------------- set_draw_target

\* disconnect is a no-op for a direct or hidden target.
set_draw_target(t, target) ==
    /\ CanCall(t)
    /\ IF poisoned THEN Panic(t)
       ELSE /\ draw_target' = target
            /\ incs' = NoIncs
            /\ obs' = NoObs
            /\ UNCHANGED <<state, poisoned, strong, thr, drv>>
            /\ calls' = calls + 1
    /\ UNCHANGED tvars

\* ----------------------------------------------------------------- suspend

\* lock, read the clock, clear the frame when the target is drawable.
suspend(t) ==
    /\ CanCall(t)
    /\ IF poisoned THEN Panic(t)
       ELSE /\ thr' = [thr EXCEPT ![t] = [@ EXCEPT !.pc = "thunk", !.op = "suspend",
                                                    !.stage = 1]]
            /\ obs' = IF is_hidden(draw_target) THEN NoObs ELSE Wrote("clear")
            /\ incs' = NoIncs
            /\ UNCHANGED <<state, draw_target, poisoned, strong, drv>>
            /\ calls' = calls + 1
    /\ UNCHANGED tvars

\* let ret = f(): the thunk returns r.
ThunkReturns(t, r) ==
    /\ thr[t].pc = "thunk"
    /\ thr' = [thr EXCEPT ![t] = [@ EXCEPT !.pc = "draw", !.arg = r]]
    /\ obs' = NoObs
    /\ UNCHANGED <<state, draw_target, poisoned, strong, drv, incs, calls>>
    /\ UNCHANGED tvars

\* The thunk panics: the guard is dropped during unwinding, which poisons
\* the Mutex.
ThunkPanics(t) ==
    /\ thr[t].pc = "thunk"
    /\ poisoned' = TRUE
    /\ thr' = [thr EXCEPT ![t] = Dead]
    /\ strong' = AfterDrop(strong)
    /\ obs' = NoObs
    /\ UNCHANGED <<state, draw_target, drv, incs, calls>>
    /\ UNCHANGED tvars

\* ----------------------------------------------------------------- getters

\* position(): lock().unwrap(), read state.pos, unlock.
position(t) ==
    /\ CanCall(t)
    /\ IF poisoned THEN Panic(t)
       ELSE /\ obs' = [write |-> "none", ret |-> <<state.pos>>]
            /\ calls' = calls + 1
            /\ UNCHANGED <<state, draw_target, poisoned, strong, thr, drv, incs>>
    /\ UNCHANGED tvars

\* ----------------------------------------------------------------- handles

\* pb.clone(), handed to a thread that holds none.
clone(t, u) ==
    /\ thr[t].pc = "idle" /\ thr[t].owns
    /\ thr[u].pc = "idle" /\ ~thr[u].owns
    /\ thr' = [thr EXCEPT ![u].owns = TRUE]
    /\ strong' = strong + 1
    /\ obs' = NoObs
    /\ calls < MaxCalls /\ calls' = calls + 1
    /\ UNCHANGED <<state, draw_target, poisoned, drv, incs>>
    /\ UNCHANGED tvars

\* drop(pb)
drop(t) ==
    /\ thr[t].pc = "idle" /\ thr[t].owns
    /\ thr' = [thr EXCEPT ![t].owns = FALSE]
    /\ strong' = AfterDrop(strong)
    /\ obs' = NoObs
    /\ calls < MaxCalls /\ calls' = calls + 1
    /\ UNCHANGED <<state, draw_target, poisoned, drv, incs>>
    /\ UNCHANGED tvars

\* WeakProgressBar::upgrade returning Some: the caller holds a handle again.
\* (Returning None changes nothing.)
upgrade(t) ==
    /\ thr[t].pc = "idle" /\ ~thr[t].owns
    /\ UpgradeSucceeds(strong)
    /\ thr' = [thr EXCEPT ![t].owns = TRUE]
    /\ strong' = strong + 1
    /\ obs' = NoObs
    /\ calls < MaxCalls /\ calls' = calls + 1
    /\ UNCHANGED <<state, draw_target, poisoned, drv, incs>>
    /\ UNCHANGED tvars

\* ------------------------------------------------------------- steady_tick

\* thread::sleep is over; state_arc.upgrade().
DriverWake(d) ==
    /\ drv[d] = "sleep"
    /\ IF UpgradeSucceeds(strong)
       THEN drv' = [drv EXCEPT ![d] = "upgraded"] /\ strong' = strong + 1
       ELSE drv' = [drv EXCEPT ![d] = "none"] /\ strong' = strong
    /\ obs' = NoObs
    /\ UNCHANGED <<state, draw_target, poisoned, thr, incs, calls>>
    /\ UNCHANGED tvars

\* state_arc.lock().unwrap(), the exit test, the tick.
DriverBody(d) ==
    /\ drv[d] = "upgraded"
    /\ DriverCanLock
    /\ obs' = NoObs
    /\ UNCHANGED <<draw_target, poisoned, thr, incs, calls>>
    /\ IF poisoned
       THEN /\ drv' = [drv EXCEPT ![d] = "none"]
            /\ strong' = AfterDrop(strong)
            /\ state' = state
       ELSE IF DriverShouldExit(state)
       THEN /\ state' = DriverExitF(state)
            /\ drv' = [drv EXCEPT ![d] = "none"]
            /\ strong' = AfterDrop(strong)
       ELSE /\ state' = DriverTickF(state)
            /\ drv' = [drv EXCEPT ![d] = "draw"]
            /\ strong' = strong
    /\ UNCHANGED tvars

\* state.draw(false, Instant::now()).ok(); the guard and the upgraded Arc
\* are dropped at the end of the loop body.
DriverDraw(d) ==
    /\ drv[d] = "draw"
    /\ \E p \in Paints(draw_target, FALSE) :
          obs' = IF p THEN Wrote("paint") ELSE NoObs
    /\ drv' = [drv EXCEPT ![d] = "sleep"]
    /\ strong' = AfterDrop(strong)
    /\ UNCHANGED <<state, draw_target, poisoned, thr, incs, calls>>
    /\ UNCHANGED tvars

\* -------------------------------------------------------- the whole system

Next ==
    \/ \E t \in Threads : tick(t)
    \/ \E t \in Threads, delta \in Deltas : inc(t, delta)
    \/ \E t \in Threads, pos \in Positions : set_position(t, pos)
    \/ \E t \in Threads, len \in Lengths : set_length(t, len)
    \/ \E t \in Threads, delta \in Deltas : inc_length(t, delta)
    \/ \E t \in Threads, prefix \in Texts : set_prefix(t, prefix)
    \/ \E t \in Threads, msg \in Texts : set_message(t, msg)
    \/ \E t \in Threads : reset_eta(t)
    \/ \E t \in Threads : reset_elapsed(t)
    \/ \E t \in Threads : reset(t)
    \/ \E t \in Threads : finish(t)
    \/ \E t \in Threads : finish_at_current_pos(t)
    \/ \E t \in Threads, msg \in Texts : finish_with_message(t, msg)
    \/ \E t \in Threads : finish_and_clear(t)
    \/ \E t \in Threads : abandon(t)
    \/ \E t \in Threads, msg \in Texts : abandon_with_message(t, msg)
    \/ \E t \in Threads, policy \in 0..1 : finish_using_style(t, policy)
    \/ \E t \in Threads : println(t)
    \/ \E t \in Threads : Mutate(t)
    \/ \E t \in Threads : Draw(t)
    \/ \E t \in Threads : Continue(t)
    \/ \E t \in Threads, ms \in Intervals \cup {0} : enable_steady_tick(t, ms)
    \/ \E t \in Threads : disable_steady_tick(t)
    \/ \E t \in Threads, target \in {"term", "hidden"} : set_draw_target(t, target)
    \/ \E t \in Threads : suspend(t)
    \/ \E t \in Threads : position(t)
    \/ \E t \in Threads, r \in ThunkResults : ThunkReturns(t, r)
    \/ \E t \in Threads : ThunkPanics(t)
    \/ \E t, u \in Threads : clone(t, u)
    \/ \E t \in Threads : drop(t)
    \/ \E t \in Threads : upgrade(t)
    \/ \E d \in Drivers : DriverWake(d)
    \/ \E d \in Drivers : DriverBody(d)
    \/ \E d \in Drivers : DriverDraw(d)

Spec == Init /\ [][Next]_vars

\* ------------------------------------------------- the fraction of any bar

\* pb.state.lock().unwrap().state.fraction(), as the unit tests read it.
read_fraction(t) ==
    /\ CanCall(t)
    /\ IF poisoned THEN Panic(t)
       ELSE /\ obs' = [write |-> "none", ret |-> <<fraction(state)>>]
            /\ calls' = calls + 1
            /\ UNCHANGED <<state, draw_target, poisoned, strong, thr, drv, incs>>
    /\ UNCHANGED tvars

\* ProgressBar::new(len).with_position(pos) for every length and position,
\* the handle cloned to every thread.
FractionInit ==
    /\ \E len \in 0..MaxU64, pos \in 0..MaxU64 :
          /\ state = NewState(len, pos)
          /\ incs = [p0 |-> pos, sum |-> 0, only |-> TRUE]
    /\ draw_target = "term"
    /\ poisoned = FALSE
    /\ strong = NThreads
    /\ thr = [t \in Threads |-> Idle(TRUE)]
    /\ drv = [d \in Drivers |-> "none"]
    /\ calls = 0
    /\ obs = NoObs
    /\ Untimed

\* The calls that move the position or the length, and the reading.
FractionNext ==
    \/ \E t \in Threads, delta \in Deltas : inc(t, delta)
    \/ \E t \in Threads, pos \in 0..MaxU64 : set_position(t, pos)
    \/ \E t \in Threads, len \in 0..MaxU64 : set_length(t, len)
    \/ \E t \in Threads, delta \in Deltas : inc_length(t, delta)
    \/ \E t \in Threads : Mutate(t)
    \/ \E t \in Threads : Draw(t)
    \/ \E t \in Threads : read_fraction(t)

FractionSpec == FractionInit /\ [][FractionNext]_vars

\* ------------------------------------------------- the bar under a clock

\* The refresh interval of a direct target, in clock ticks (positive: the
\* target enforces a maximum refresh rate).
RefreshInterval == 2

\* The last instant of the clock.
MaxTime == 3

\* (mutant) the time between two instants, whichever is the later.
Elapsed_Between(stamp, last) == IF stamp > last THEN stamp - last ELSE last - stamp

\* The time elapsed at stamp since last: a Duration, never negative.
Elapsed(stamp, last) == IF stamp > last THEN stamp - last ELSE 0

\* (mutant) a direct target without the throttle.
DirectPaints_Always(force, stamp, last) == TRUE

\* A direct target's answer to a redraw attempt: it proceeds when forced or
\* when the refresh interval has elapsed since its last draw.
DirectPaints(force, stamp, last) == force \/ Elapsed(stamp, last) >= RefreshInterval

\* BarState::draw(force, now) under the clock.  A remote target hands the
\* frame to the shared region, which throttles on its own.
PaintsAt(target, force, stamp, last) ==
    IF target = "term" THEN {DirectPaints(force, stamp, last)}
    ELSE Paints(target, force)

\* (mutant) a driver that forces its draw.
DriverForce_Forced == TRUE

\* The force argument of the driver's draw: state.draw(false, Instant::now()).
DriverForce == FALSE

\* ProgressDrawTarget::disconnect: a remote target gives its slot back to the
\* shared region; direct and hidden targets have nothing to release.
disconnect(target, l) == IF target = "remote" THEN FALSE ELSE l

\* One draw attempt by the holder of the guard: the active target decides,
\* and a direct target that paints records the timestamp.
DrawAt(force, stamp, kind) ==
    \E p \in PaintsAt(draw_target, force, stamp, last_draw) :
        /\ obs' = IF p THEN Wrote(kind) ELSE NoObs
        /\ last_draw' = IF p /\ draw_target = "term" THEN stamp ELSE last_draw
        /\ upaint' = IF p /\ draw_target = "term" /\ ~force THEN stamp ELSE upaint

\* Time passes.
ClockAdvances ==
    /\ clock < MaxTime
    /\ clock' = clock + 1
    /\ obs' = NoObs
    /\ UNCHANGED <<state, draw_target, poisoned, strong, thr, drv, calls, incs>>
    /\ UNCHANGED <<now, last_draw, upaint, linked, target_id>>
    /\ UNCHANGED sleep_ms

\* self.update_and_draw(Instant::now(), ..): the clock is read when the call
\* is made, before the lock is asked for.
ReadClock(t, op, arg) ==
    /\ thr[t].pc = "idle" /\ thr[t].owns /\ calls < MaxCalls
    /\ thr' = [thr EXCEPT ![t] = [@ EXCEPT !.pc = "called", !.op = op,
                                           !.arg = arg, !.stage = 1]]
    /\ now' = [now EXCEPT ![t] = clock]
    /\ calls' = calls + 1
    /\ obs' = NoObs
    /\ UNCHANGED <<state, draw_target, poisoned, strong, drv, incs>>
    /\ UNCHANGED <<clock, last_draw, upaint, linked, target_id>>
    /\ UNCHANGED sleep_ms

inc_at(t, delta) == ReadClock(t, "inc", delta)

\* self.tick() at the end of enable_steady_tick: its Instant::now().
enable_steady_tick_tick(t) ==
    /\ thr[t].pc = "gap" /\ thr[t].op = "enable_steady_tick"
    /\ thr' = [thr EXCEPT ![t].pc = "called"]
    /\ now' = [now EXCEPT ![t] = clock]
    /\ obs' = NoObs
    /\ UNCHANGED <<state, draw_target, poisoned, strong, drv, calls, incs>>
    /\ UNCHANGED <<clock, last_draw, upaint, linked, target_id>>
    /\ UNCHANGED sleep_ms

\* update_and_draw: lock, apply the closure, draw unforced with the instant
\* the caller read, unlock.
update_and_draw(t) ==
    /\ thr[t].pc = "called"
    /\ CanLock
    /\ state' = Closure(thr[t].op, thr[t].arg, thr[t].stage, state)
    /\ DrawAt(FALSE, now[t], "paint")
    /\ thr' = [thr EXCEPT ![t] = Idle(TRUE)]
    /\ now' = [now EXCEPT ![t] = 0]
    /\ UNCHANGED <<draw_target, poisoned, strong, drv, calls, incs>>
    /\ UNCHANGED <<clock, linked, target_id>>
    /\ UNCHANGED sleep_ms

\* self.state.lock().unwrap() followed by Instant::now(): the clock is read
\* by the holder of the guard.
LockThenReadClock(t, op) ==
    /\ CanCall(t)
    /\ thr' = [thr EXCEPT ![t] = [@ EXCEPT !.pc = "locked", !.op = op, !.stage = 1]]
    /\ now' = [now EXCEPT ![t] = clock]
    /\ calls' = calls + 1
    /\ obs' = NoObs
    /\ UNCHANGED <<state, draw_target, poisoned, strong, drv, incs>>
    /\ UNCHANGED <<clock, last_draw, upaint, linked, target_id>>
    /\ UNCHANGED sleep_ms

finish_at(t) == LockThenReadClock(t, "finish")

println_at(t) == LockThenReadClock(t, "println")

\* The forced draw of finish and of println, and the unlock.
ForcedDraw(t) ==
    /\ thr[t].pc = "locked" /\ thr[t].op \in {"finish", "println"}
    /\ state' = Closure(thr[t].op, thr[t].arg, thr[t].stage, state)
    /\ DrawAt(TRUE, now[t], IF thr[t].op = "println" THEN "line" ELSE "paint")
    /\ thr' = [thr EXCEPT ![t] = Idle(TRUE)]
    /\ now' = [now EXCEPT ![t] = 0]
    /\ UNCHANGED <<draw_target, poisoned, strong, drv, calls, incs>>
    /\ UNCHANGED <<clock, linked, target_id>>
    /\ UNCHANGED sleep_ms

\* suspend: lock, now = Instant::now(), drawable(true, now) and clear.
suspend_at(t) ==
    /\ CanCall(t)
    /\ thr' = [thr EXCEPT ![t] = [@ EXCEPT !.pc = "thunk", !.op = "suspend", !.stage = 1]]
    /\ now' = [now EXCEPT ![t] = clock]
    /\ DrawAt(TRUE, clock, "clear")
    /\ calls' = calls + 1
    /\ UNCHANGED <<state, draw_target, poisoned, strong, drv, incs>>
    /\ UNCHANGED <<clock, linked, target_id>>
    /\ UNCHANGED sleep_ms

\* f() has returned: state.draw(true, now) with the instant read before the
\* thunk ran, and the unlock.
suspend_redraw(t) ==
    /\ thr[t].pc = "thunk"
    /\ DrawAt(TRUE, now[t], "paint")
    /\ thr' = [thr EXCEPT ![t] = Idle(TRUE)]
    /\ now' = [now EXCEPT ![t] = 0]
    /\ UNCHANGED <<state, draw_target, poisoned, strong, drv, calls, incs>>
    /\ UNCHANGED <<clock, linked, target_id>>
    /\ UNCHANGED sleep_ms

\* (mutant) set_draw_target that locks and does not disconnect.
set_draw_target_keep(t, target) ==
    /\ CanCall(t)
    /\ thr' = [thr EXCEPT ![t] = [@ EXCEPT !.pc = "locked", !.op = "set_draw_target",
                                           !.arg = target, !.stage = 1]]
    /\ now' = [now EXCEPT ![t] = clock]
    /\ calls' = calls + 1
    /\ obs' = NoObs
    /\ UNCHANGED <<state, draw_target, poisoned, strong, drv, incs>>
    /\ UNCHANGED <<clock, last_draw, upaint, linked, target_id>>
    /\ UNCHANGED sleep_ms

\* set_draw_target(target), first half: lock and
\* state.draw_target.disconnect(Instant::now()).  The new target was built
\* in the argument of the call.
set_draw_target_disconnect(t, target) ==
    /\ CanCall(t)
    /\ thr' = [thr EXCEPT ![t] = [@ EXCEPT !.pc = "locked", !.op = "set_draw_target",
                                           !.arg = target, !.stage = 1]]
    /\ now' = [now EXCEPT ![t] = clock]
    /\ linked' = disconnect(draw_target, linked)
    /\ calls' = calls + 1
    /\ obs' = NoObs
    /\ UNCHANGED <<state, draw_target, poisoned, strong, drv, incs>>
    /\ UNCHANGED <<clock, last_draw, upaint, target_id>>
    /\ UNCHANGED sleep_ms

\* set_draw_target, second half: state.draw_target = target, and the unlock.
set_draw_target_assign(t) ==
    /\ thr[t].pc = "locked" /\ thr[t].op = "set_draw_target"
    /\ draw_target' = thr[t].arg
    /\ last_draw' = now[t]
    /\ upaint' = -1
    /\ linked' = linked
    /\ target_id' = target_id + 1
    /\ thr' = [thr EXCEPT ![t] = Idle(TRUE)]
    /\ now' = [now EXCEPT ![t] = 0]
    /\ obs' = NoObs
    /\ UNCHANGED <<state, poisoned, strong, drv, calls, incs, clock>>
    /\ UNCHANGED sleep_ms

\* state.draw(false, Instant::now()).ok() in steady_tick: the clock is read
\* under the guard, the result of the draw is dropped, and the loop goes on.
DriverDrawAt(d) ==
    /\ drv[d] = "draw"
    /\ DrawAt(DriverForce, clock, "paint")
    /\ drv' = [drv EXCEPT ![d] = "sleep"]
    /\ strong' = AfterDrop(strong)
    /\ UNCHANGED <<state, draw_target, poisoned, thr, incs, calls>>
    /\ UNCHANGED <<clock, now, linked, target_id>>
    /\ UNCHANGED sleep_ms

\* The targets set_draw_target is called with: the terminal, nothing.
Targets == {"term", "hidden"}

\* ProgressBar::new(1), drawing to the terminal or added to a MultiProgress,
\* its handle cloned to every thread, at the instant 0.
TimedInit ==
    /\ state = NewState(1, 0)
    /\ draw_target \in {"term", "remote"}
    /\ linked = (draw_target = "remote")
    /\ poisoned = FALSE
    /\ strong = NThreads
    /\ thr = [t \in Threads |-> Idle(TRUE)]
    /\ drv = [d \in Drivers |-> "none"]
    /\ calls = 0
    /\ incs = NoIncs
    /\ obs = NoObs
    /\ clock = 0
    /\ now = [t \in Threads |-> 0]
    /\ last_draw = 0
    /\ upaint = -1
    /\ target_id = 0
    /\ sleep_ms = [d \in Drivers |-> 0]

TimedNext ==
    \/ ClockAdvances
    \/ \E t \in Threads : inc_at(t, 1)
    \/ \E t \in Threads : update_and_draw(t)
    \/ \E t \in Threads : finish_at(t)
    \/ \E t \in Threads : println_at(t)
    \/ \E t \in Threads : ForcedDraw(t)
    \/ \E t \in Threads : suspend_at(t)
    \/ \E t \in Threads : suspend_redraw(t)
    \/ \E t \in Threads, target \in Targets : set_draw_target_disconnect(t, target)
    \/ \E t \in Threads : set_draw_target_assign(t)
    \/ \E t \in Threads : enable_steady_tick(t, 1)
    \/ \E t \in Threads : enable_steady_tick_tick(t)
    \/ \E d \in Drivers : DriverWake(d)
    \/ \E d \in Drivers : DriverBody(d)
    \/ \E d \in Drivers : DriverDrawAt(d)

TimedSpec == TimedInit /\ [][TimedNext]_vars

\* ------------------------------- the driver and its callers, under fairness

\* The timed state other than the drivers' ms.
svars == <<clock, now, last_draw, upaint, linked, target_id>>

\* The first critical section of enable_steady_tick, with the interval that
\* thread::spawn(move || Self::steady_tick(state_arc, ms)) hands to the driver.
enable_steady_tick_ms(t, ms) ==
    /\ CanCall(t)
    /\ IF poisoned THEN Panic(t) /\ UNCHANGED sleep_ms
       ELSE /\ incs' = IncsAfter("enable_steady_tick", ms)
            /\ obs' = NoObs
            /\ UNCHANGED <<draw_target, poisoned>>
            /\ calls' = calls + 1
            /\ IF DriverRecorded(state)
               THEN /\ state' = [state EXCEPT !.steady_tick = ms]
                    /\ UNCHANGED <<strong, thr, drv, sleep_ms>>
               ELSE \E d \in Drivers :
                    /\ IsFree(d)
                    /\ state' = [state EXCEPT !.steady_tick = ms, !.tick_thread = d]
                    /\ drv' = [drv EXCEPT ![d] = "sleep"]
                    /\ sleep_ms' = [sleep_ms EXCEPT ![d] = ms]
                    /\ strong' = AfterDowngrade(strong)
                    /\ thr' = [thr EXCEPT ![t] =
                                 [@ EXCEPT !.pc = "gap", !.op = "enable_steady_tick",
                                           !.arg = ms, !.stage = 2]]
    /\ UNCHANGED svars

\* (mutant) a driver that keeps the ms it was spawned with.
NextMs_Spawned(st, ms) == ms

\* ms = state.state.steady_tick
NextMs(st, ms) == st.steady_tick

\* state_arc.lock().unwrap(), the exit test, the tick, and the interval of
\* the next sleep.
steady_tick_body(d) ==
    /\ drv[d] = "upgraded"
    /\ DriverCanLock
    /\ obs' = NoObs
    /\ UNCHANGED <<draw_target, poisoned, thr, incs, calls>>
    /\ IF poisoned
       THEN /\ drv' = [drv EXCEPT ![d] = "none"]
            /\ strong' = AfterDrop(strong)
            /\ UNCHANGED <<state, sleep_ms>>
       ELSE IF DriverShouldExit(state)
       THEN /\ state' = DriverExitF(state)
            /\ drv' = [drv EXCEPT ![d] = "none"]
            /\ strong' = AfterDrop(strong)
            /\ UNCHANGED sleep_ms
       ELSE /\ state' = DriverTickF(state)
            /\ drv' = [drv EXCEPT ![d] = "draw"]
            /\ sleep_ms' = [sleep_ms EXCEPT ![d] = NextMs(state, sleep_ms[d])]
            /\ strong' = strong
    /\ UNCHANGED svars

\* The thunk of a suspend calls a method of the same bar: the thread, which
\* holds the guard, is at self.state.lock() again.
ThunkCallsBar(t) ==
    /\ thr[t].pc = "thunk"
    /\ thr' = [thr EXCEPT ![t].pc = "relock"]
    /\ obs' = NoObs
    /\ UNCHANGED <<state, draw_target, poisoned, strong, drv, incs, calls>>
    /\ UNCHANGED tvars

\* (mutant) a reentrant Mutex: the second lock() returns, the method runs,
\* and the thread is back in its thunk.
RelockReturns(t) ==
    /\ thr[t].pc = "relock"
    /\ thr' = [thr EXCEPT ![t].pc = "thunk"]
    /\ obs' = NoObs
    /\ UNCHANGED <<state, draw_target, poisoned, strong, drv, incs, calls>>
    /\ UNCHANGED tvars

\* std::sync::Mutex::lock on a Mutex the thread itself holds does not
\* return: it blocks for ever (no step) or it panics, which of the two is
\* left unspecified.  The panic unwinds through suspend and poisons.
RelockPanics(t) ==
    /\ thr[t].pc = "relock"
    /\ poisoned' = TRUE
    /\ thr' = [thr EXCEPT ![t] = Dead]
    /\ strong' = AfterDrop(strong)
    /\ obs' = NoObs
    /\ UNCHANGED <<state, draw_target, drv, incs, calls>>
    /\ UNCHANGED tvars

\* ProgressBar::new(1), its handle cloned to every thread.
FairInit ==
    /\ state = NewState(1, 0)
    /\ draw_target = "term"
    /\ poisoned = FALSE
    /\ strong = NThreads
    /\ thr = [t \in Threads |-> Idle(TRUE)]
    /\ drv = [d \in Drivers |-> "none"]
    /\ calls = 0
    /\ incs = NoIncs
    /\ obs = NoObs
    /\ Untimed

FairNext ==
    \/ \E t \in Threads, ms \in Intervals \cup {0} : enable_steady_tick_ms(t, ms)
    \/ \E t \in Threads : finish(t)
    \/ \E t \in Threads : drop(t)
    \/ \E t \in Threads : suspend(t)
    \/ \E t \in Threads : ThunkReturns(t, 0)
    \/ \E t \in Threads : ThunkPanics(t)
    \/ \E t \in Threads : ThunkCallsBar(t)
    \/ \E t \in Threads : RelockPanics(t)
    \/ \E t \in Threads : Mutate(t)
    \/ \E t \in Threads : Draw(t)
    \/ \E t \in Threads : Continue(t)
    \/ \E d \in Drivers : DriverWake(d)
    \/ \E d \in Drivers : steady_tick_body(d)
    \/ \E d \in Drivers : DriverDraw(d)

\* A thread that holds the guard goes on (the closure, the draw and the
\* thunk end); a sleeping driver wakes; a thread or driver waiting for the
\* Mutex gets it when it is free again and again.  Nobody has to make a
\* call, and a lock() on a Mutex the thread holds need not panic.
Fairness ==
    /\ \A t \in Threads :
         /\ WF_vars(Mutate(t))
         /\ WF_vars(Draw(t))
         /\ WF_vars(ThunkReturns(t, 0) \/ ThunkPanics(t) \/ ThunkCallsBar(t))
         /\ SF_vars(Continue(t))
    /\ \A d \in Drivers :
         /\ WF_vars(DriverWake(d))
         /\ SF_vars(steady_tick_body(d))
         /\ WF_vars(DriverDraw(d))

FairSpec == FairInit /\ [][FairNext]_vars /\ Fairness

\* ------------------------------------------------------------- vocabulary

\* The threads that hold an owning handle (a ProgressBar).
Owning == {t \in Threads : thr[t].owns}

NumOwning == Cardinality(Owning)

\* The driver threads still in steady_tick's loop.
LiveDrivers == {d \in Drivers : drv[d] # "none"}

\* The drivers inside a wake, holding the Arc they upgraded.
HoldingDrivers == {d \in Drivers : drv[d] \in {"upgraded", "draw"}}

\* The threads whose calls so far were all enable/disable_steady_tick.
OnlyEnables == incs.only /\ incs.sum = 0

\* --------------------------------------------------------------------- C1

\* C1: at most one Tick Driver per bar.  Whatever the threads and the drivers
\* do, no step leaves more than one driver in steady_tick's loop; and a step
\* that changes the interval while a driver is recorded (an enable that finds
\* tick_thread set) changes only the interval: it spawns nothing, touches no
\* other field, and the caller returns at once.
C1_AtMostOneDriver ==
    [][ /\ Cardinality(LiveDrivers') <= 1
        /\ (/\ state.tick_thread # None
            /\ state'.tick_thread # None
            /\ state'.steady_tick # state.steady_tick)
           => /\ state' = [state EXCEPT !.steady_tick = state'.steady_tick]
              /\ UNCHANGED <<thr, drv, strong, draw_target>>
              /\ obs' = NoObs
      ]_vars

\* Two enable calls have been made, the first spawned the driver and its
\* caller has not yet come to its tick; the second one set another interval
\* and found the driver recorded.
C1_Witness ==
    /\ OnlyEnables /\ calls = 2
    /\ Cardinality(LiveDrivers) = 1
    /\ \E t \in Threads :
          /\ thr[t].pc = "gap" /\ thr[t].op = "enable_steady_tick"
          /\ thr[t].arg # state.steady_tick
          /\ thr[t].arg # 0 /\ state.steady_tick # 0

\* --------------------------------------------------------------------- C2

\* C2: once the interval is 0 (disable_steady_tick), the driver's next wake is
\* its last: every step a live driver takes while the interval is 0 ticks
\* nothing and writes nothing, leads only to the lock or out of the loop, and
\* the step that takes the lock leaves the loop, clears tick_thread and gives
\* up the upgraded Arc, after which the strong count is that of the handles.
C2_DisabledDriverExits ==
    [][ \A d \in Drivers :
          (state.steady_tick = 0 /\ drv[d] # "none" /\ drv'[d] # drv[d])
          => /\ state'.tick = state.tick
             /\ obs'.write = "none"
             /\ drv'[d] \in {"upgraded", "none"}
             /\ drv[d] = "upgraded"
                => /\ drv'[d] = "none"
                   /\ strong' = strong - 1
                   /\ strong' = NumOwning'
                   /\ ~poisoned => state' = [state EXCEPT !.tick_thread = None]
      ]_vars

\* enable_steady_tick(ms > 0) spawned a driver, disable_steady_tick followed,
\* the driver woke and left, all before the enabling caller came to its tick:
\* no driver is left or recorded, and only the handles own the cell.
C2_Witness ==
    /\ OnlyEnables /\ calls = 2
    /\ LiveDrivers = {}
    /\ state.tick_thread = None /\ state.steady_tick = 0
    /\ strong = NumOwning /\ NumOwning >= 1
    /\ \E t \in Threads :
          thr[t].pc = "gap" /\ thr[t].op = "enable_steady_tick" /\ thr[t].arg > 0

\* --------------------------------------------------------------------- C3

\* C3: the driver owns nothing between wakes.  In every state in which no
\* thread holds a handle and a driver sleeps, the cell is gone (strong count
\* 0), and the driver's next step fails to upgrade and leaves the loop,
\* changing nothing of the bar and writing nothing.
C3_DriverHoldsWeak ==
    [][ \A d \in Drivers :
          /\ (NumOwning' = 0 /\ HoldingDrivers' = {}) => strong' = 0
          /\ (NumOwning = 0 /\ drv[d] = "sleep" /\ drv'[d] # drv[d])
             => /\ drv'[d] = "none"
                /\ state' = state
                /\ obs'.write = "none"
      ]_vars

\* Every handle has been dropped while a driver was asleep: the cell is
\* gone although the driver thread still exists.
C3_Witness ==
    /\ NumOwning = 0
    /\ \E d \in Drivers : drv[d] = "sleep"
    /\ strong = 0
    /\ \A t \in Threads : thr[t].pc = "idle"

\* --------------------------------------------------------------------- C4

\* What WeakProgressBar::upgrade would return now.
WeakUpgrades == UpgradeSucceeds(strong)

\* C4 as claimed: a weak handle upgrades exactly while an owning handle
\* exists, also while a driver is inside a wake.
C4_UpgradeIffOwned == WeakUpgrades <=> NumOwning >= 1

\* C4 as amended: a weak handle upgrades whenever an owning handle exists;
\* once the last owning handle is released it fails to upgrade as soon as no
\* driver is inside a wake holding the Arc it upgraded (at once when none
\* is), and it still upgrades while one is.
C4_UpgradeIffStrong ==
    /\ NumOwning >= 1 => WeakUpgrades
    /\ (NumOwning = 0 /\ HoldingDrivers = {}) => ~WeakUpgrades
    /\ (NumOwning = 0 /\ HoldingDrivers # {}) => WeakUpgrades

\* The last owning handle has been released with a driver running but not
\* inside a wake, and the weak handle no longer upgrades.
C4_Witness ==
    /\ NumOwning = 0
    /\ LiveDrivers # {} /\ HoldingDrivers = {}
    /\ ~WeakUpgrades

\* --------------------------------------------------------------------- C5

\* C5 as claimed: once Finished, always Finished.
C5_FinishedIsTerminal == [][ is_finished(state) => is_finished(state') ]_vars

\* C5 as amended: the only step that takes a bar from Finished back to
\* InProgress is the third update of reset(); no other operation of a handle
\* or of the driver makes is_finished() false again.
C5_OnlyResetReverts ==
    [][ (is_finished(state) /\ ~is_finished(state'))
        => \E t \in Threads :
             /\ thr[t].op = "reset" /\ thr[t].stage = 3
             /\ thr[t].pc = "locked" /\ thr'[t].pc = "draw"
      ]_vars

\* A call other than reset and the finish family has applied its update to a
\* bar that was Finished before the call took the lock, and the bar is still
\* Finished.
C5_Witness ==
    /\ is_finished(state)
    /\ \E t \in Threads :
          /\ thr[t].pc = "draw"
          /\ thr[t].op \in {"inc", "set_position", "set_length", "set_message", "tick",
                            "reset_eta", "reset_elapsed", "enable_steady_tick"}
\* --------------------------------------------------------------------- C6

\* The mutating calls C6 names.
C6Ops == {"inc", "set_position", "set_length", "inc_length", "set_message",
          "set_prefix", "tick", "reset_eta", "reset_elapsed", "reset"}

\* From thread t's first lock to its return, or inside driver d's tick and
\* draw, nobody else changes the bar or writes to its target.
Undisturbed ==
    /\ state' = state
    /\ draw_target' = draw_target
    /\ obs'.write = "none"

\* C6 as claimed: a mutating call, reset included, is one critical section:
\* from the moment it first holds the lock until it returns, no step of
\* another thread or of the driver changes the bar or writes a frame.
C6_CallIsOneTransaction ==
    [][ \A t \in Threads :
          (/\ thr[t].op \in C6Ops
           /\ thr[t].pc \in {"locked", "draw", "gap"}
           /\ thr'[t] = thr[t])
          => Undisturbed
      ]_vars

\* C6 as amended: every update_and_draw is one critical section (the
\* closure's mutation is followed by the redraw attempt of the same call,
\* which draws the state that mutation produced, and no step of another thread
\* or of the driver comes between them; the same for the driver's own tick and
\* draw); reset() is three such transactions in a row (reset_eta,
\* reset_elapsed, then position and status), not one.
C6_UpdateAndDrawAtomic ==
    [][ /\ \A t \in Threads :
             (thr[t].op \in C6Ops /\ thr[t].pc \in {"locked", "draw"})
             => IF thr'[t] = thr[t] THEN Undisturbed
                ELSE /\ thr[t].pc = "locked"
                        => /\ thr'[t].pc = "draw"
                           /\ state' = Closure(thr[t].op, thr[t].arg, thr[t].stage, state)
                     /\ thr[t].pc = "draw"
                        => /\ state' = state
                           /\ thr'[t].pc \in {"idle", "gap"}
                           /\ thr'[t].pc = "gap" <=> (thr[t].op = "reset" /\ thr[t].stage < 3)
        /\ \A d \in Drivers :
             drv[d] = "draw" => IF drv'[d] = drv[d] THEN Undisturbed ELSE state' = state
      ]_vars

\* A call has applied its mutation and is about to draw while the driver,
\* awake, waits for the lock.
C6_Witness ==
    /\ \E t \in Threads : thr[t].op \in {"inc", "set_position"} /\ thr[t].pc = "draw"
    /\ \E d \in Drivers : drv[d] = "upgraded"
    /\ state.steady_tick # 0

\* --------------------------------------------------------------------- C7

Min(a, b) == IF a < b THEN a ELSE b

\* C7: concurrent increments are never lost.  When the only calls made on the
\* bar are inc (and enable_steady_tick, for a running driver) and every inc
\* has applied its update, the position is min(p0 + d1 + ... + dn, max), in
\* whatever order the threads took the lock.
C7_IncsNotLost ==
    (incs.only /\ \A t \in Threads : thr[t].op # "inc" \/ thr[t].pc = "draw")
    => state.pos = Min(incs.p0 + incs.sum, MaxU64)

\* Two threads have each made an inc, the sum passed the maximum and the
\* position stopped there.
C7_Witness ==
    /\ incs.only /\ calls = 2
    /\ incs.p0 + incs.sum > MaxU64
    /\ NumOwning = NThreads
    /\ \A t \in Threads : thr[t].pc = "idle"
    /\ state.pos = MaxU64

\* --------------------------------------------------------------------- C8

\* C8: position arithmetic saturates and is not clamped to the length.  The
\* update of inc(d) leaves pos = min(pos + d, max) and that of set_position(q)
\* leaves pos = q, whatever the length; a call that holds the lock never
\* fails; and finish() on a bar whose position exceeds its length marks it
\* Finished and goes on to its draw.
C8_SaturatingNotClamped ==
    [][ \A t \in Threads :
          /\ (thr[t].pc \in {"locked", "draw"}) => thr'[t].pc # "dead"
          /\ (thr[t].pc = "locked" /\ thr'[t].pc = "draw")
             => /\ thr[t].op = "inc"
                   => state'.pos = Min(state.pos + thr[t].arg, MaxU64)
                /\ thr[t].op = "set_position" => state'.pos = thr[t].arg
                /\ thr[t].op = "finish" => is_finished(state')
                /\ thr[t].op \in {"inc", "set_position"} => state'.len = state.len
          /\ (thr[t].pc = "draw" /\ thr'[t].pc # "draw")
             => state' = state
      ]_vars

\* The bar of length 1 has been taken to position 2 and finish() is being
\* applied to it.
C8_Witness ==
    /\ state.len = 1 /\ state.pos = 2
    /\ \E t \in Threads : thr[t].op = "finish" /\ thr[t].pc = "locked"

\* --------------------------------------------------------------------- C9

\* The calls C9 names.
C9Ops == {"tick", "inc", "set_position", "set_message", "set_prefix"}

\* C9: while the interval is non-zero, the update of tick(), inc(),
\* set_position(), set_message() or set_prefix() leaves the tick counter as
\* it was.
C9_NoTickWhenSteady ==
    [][ \A t \in Threads :
          (/\ thr[t].pc = "locked" /\ thr'[t].pc = "draw"
           /\ thr[t].op \in C9Ops
           /\ state.steady_tick # 0)
          => state'.tick = state.tick
      ]_vars

\* -------------------------------------------------------------------- C10

\* C10: suspend(f) takes the lock and clears the frame if the target is not
\* hidden; f runs once with the lock held; the forced redraw follows and f's
\* result is returned.  Between the clear and the redraw no other step changes
\* the bar or writes to the target.  With a hidden target nothing is written
\* and f runs and its result is returned all the same.
C10_Suspend ==
    [][ \A t \in Threads :
          /\ (thr[t].pc = "idle" /\ thr'[t].pc = "thunk")
             => /\ thr'[t].op = "suspend"
                /\ state' = state /\ draw_target' = draw_target
                /\ obs'.write = IF is_hidden(draw_target) THEN "none" ELSE "clear"
          /\ (thr[t].op = "suspend" /\ thr[t].pc \in {"thunk", "draw"})
             => IF thr'[t] = thr[t] THEN Undisturbed
                ELSE /\ state' = state /\ draw_target' = draw_target
                     /\ thr[t].pc = "thunk"
                        => /\ thr'[t].pc \in {"draw", "dead"}
                           /\ obs'.write = "none"
                     /\ thr[t].pc = "draw"
                        => /\ thr'[t].pc = "idle"
                           /\ obs'.ret = <<thr[t].arg>>
                           /\ obs'.write = IF is_hidden(draw_target) THEN "none"
                                           ELSE "paint"
          /\ (thr'[t].op = "suspend" /\ thr'[t].pc = "draw" /\ thr'[t] # thr[t])
             => thr[t].pc = "thunk"
      ]_vars

\* The thunk of a suspend on a hidden bar has returned 1 and the redraw is
\* due, while the driver, awake, waits for the lock.
C10_Witness ==
    /\ is_hidden(draw_target)
    /\ \E t \in Threads : thr[t].op = "suspend" /\ thr[t].pc = "draw" /\ thr[t].arg = 1
    /\ \E d \in Drivers : drv[d] = "upgraded"

\* -------------------------------------------------------------------- C11

\* C11: println never changes the Progress Record, on any target, and on a
\* hidden target it writes nothing: every step of a println call leaves
\* position, length, message, prefix, status, tick counter and interval as
\* they were, and its draw writes the line exactly when the target is not
\* hidden.
C11_PrintlnHiddenNoOp ==
    [][ \A t \in Threads :
          (thr'[t].op = "println" \/ thr[t].op = "println") /\ thr'[t] # thr[t]
          => /\ state' = state
             /\ draw_target' = draw_target
             /\ obs'.write = IF thr[t].pc = "draw" /\ draw_target # "hidden"
                             THEN "line" ELSE "none"
      ]_vars

\* println is at its draw on a hidden bar whose record is no longer the one
\* it was constructed with.
C11_Witness ==
    /\ draw_target = "hidden"
    /\ \E t \in Threads : thr[t].op = "println" /\ thr[t].pc = "draw"
    /\ state.pos > 0 /\ state.tick > 0

\* -------------------------------------------------------------------- C12

\* Thread t makes the draw attempt of an unforced update in this step.
UnforcedAttempt(t) == thr[t].pc = "called" /\ thr'[t].pc = "idle"

\* Thread t makes the draw of finish or println in this step.
ForcedAttempt(t) ==
    /\ thr[t].pc = "locked" /\ thr[t].op \in {"finish", "println"}
    /\ thr'[t].pc = "idle"

\* Thread t clears the bar for its thunk, or redraws it after the thunk.
SuspendAttempt(t) ==
    \/ thr[t].pc = "idle" /\ thr'[t].pc = "thunk"
    \/ thr[t].pc = "thunk" /\ thr'[t].pc = "idle"

\* C12: on a direct target an unforced redraw attempt paints if and only if
\* the refresh interval has elapsed between the target's last draw and the
\* instant of the attempt; the draws of finish, println and suspend always
\* paint, whatever the time since the last draw; and two unforced paints on
\* one target are at least one refresh interval apart, so of two unforced
\* updates made within one interval of each other at most one paints.
C12_ThrottleUnlessForced ==
    [][ draw_target = "term" =>
          \A t \in Threads :
            /\ UnforcedAttempt(t) =>
                 /\ obs'.write # "none" <=> now[t] - last_draw >= RefreshInterval
                 /\ (obs'.write # "none" /\ upaint >= 0)
                      => now[t] - upaint >= RefreshInterval
            /\ (ForcedAttempt(t) \/ SuspendAttempt(t)) =>
                 /\ obs'.write # "none"
                 /\ upaint' = upaint
      ]_vars

\* Two inc calls have returned, the only calls made; one of them painted,
\* less than a refresh interval ago.
C12_Witness ==
    /\ draw_target = "term" /\ target_id = 0
    /\ calls = 2 /\ state.pos = 2
    /\ \A t \in Threads : thr[t].pc = "idle"
    /\ upaint >= 0 /\ clock - upaint < RefreshInterval

\* -------------------------------------------------------------------- C13

\* Thread t is between the two halves of set_draw_target.
Switching(t) == thr[t].pc = "locked" /\ thr[t].op = "set_draw_target"

\* C13: the bar has one target, the one in draw_target, and the shared region
\* holds a slot for the bar only while that target is the remote one.
\* set_draw_target changes the target in one critical section: when the new
\* target becomes active the old one has been disconnected (its slot, if it
\* had one, released) by the same thread, which held the guard in between,
\* so that nothing was drawn in between; and a step that writes to the
\* terminal is a step of the holder of the guard, made outside the switch.
C13_DisconnectBeforeSwitch ==
    [][ /\ linked' => draw_target' = "remote"
        /\ (draw_target' # draw_target \/ target_id' # target_id) =>
             /\ ~linked /\ ~linked'
             /\ \E t \in Threads : Switching(t) /\ thr'[t].pc = "idle"
        /\ \A t \in Threads : Switching(t) =>
             /\ obs'.write = "none"
             /\ last_draw' # last_draw => thr'[t].pc = "idle"
             /\ state' = state
             /\ \A u \in Threads \ {t} :
                  /\ thr'[u].pc \notin {"locked", "thunk"}
                  /\ ~UnforcedAttempt(u)
             /\ \A d \in Drivers : drv'[d] # "draw"
      ]_vars

\* A bar that was added to a MultiProgress is inside set_draw_target: its
\* slot has been released, the remote target is still in place.
C13_Witness ==
    /\ draw_target = "remote" /\ ~linked
    /\ \E t \in Threads : Switching(t)

\* -------------------------------------------------------------------- C14

\* C14: the last-draw timestamp of a target never decreases, whoever draws:
\* an update with the instant it read before locking, finish and println
\* with the instant they read after locking, suspend with the instant it
\* read before its thunk, the driver.
C14_TimestampsMonotonic ==
    [][ target_id' = target_id => last_draw' >= last_draw ]_vars

\* An update is about to draw with an instant older than the last draw of
\* the target: another thread has painted since the update read the clock.
C14_Witness ==
    /\ draw_target = "term"
    /\ \E t \in Threads : thr[t].pc = "called" /\ now[t] < last_draw

\* -------------------------------------------------------------------- C15

\* The threads that have panicked.
Panicked == {t \in Threads : thr[t].pc = "dead"}

\* C15: a poisoned Mutex is never recovered.  Once the Mutex is poisoned it
\* stays poisoned, and no later step reads, changes or paints the bar: the
\* record and the target stay as they are, nothing is written or returned,
\* every thread that moves on in a call (a new call, a getter, the next lock
\* of reset or of enable_steady_tick) panics, and a driver that comes to the
\* lock leaves its loop without ticking or drawing.
C15_PoisonIsNotRecovered ==
    [][ poisoned
        => /\ poisoned'
           /\ state' = state /\ draw_target' = draw_target
           /\ obs' = NoObs
           /\ \A t \in Threads :
                thr'[t].pc # thr[t].pc => thr'[t].pc = "dead"
           /\ \A d \in Drivers :
                drv'[d] # drv[d] => (drv'[d] = "none" \/ drv[d] = "sleep")
      ]_vars

\* After the thunk of a suspend panicked, another thread called the bar and
\* panicked too.
C15_Witness ==
    /\ poisoned
    /\ Cardinality(Panicked) >= 2
    /\ calls = 1

\* -------------------------------------------------------------------- C16

\* C16: for every position and length, fraction() is defined (its
\* denominator is positive) and lies in [0, 1]; it is 1 when the length is 0
\* and 0 when the length is the unknown sentinel, whatever the position; it
\* is 1 when the position exceeds a known non-zero length, and position /
\* length when the position is at most the length.  What a reading returns
\* is this value.
C16_FractionRule ==
    LET f == fraction(state)
        known == state.len # 0 /\ state.len # MaxU64
    IN  /\ f[2] > 0 /\ 0 <= f[1] /\ f[1] <= f[2]
        /\ state.len = 0 => f[1] = f[2]
        /\ state.len = MaxU64 => f[1] = 0
        /\ (known /\ state.pos > state.len) => f[1] = f[2]
        /\ (known /\ state.pos <= state.len) => f[1] * state.len = state.pos * f[2]
        /\ (obs.ret # <<>> /\ obs.write = "none") => obs.ret = <<f>>

\* A reading found the position above a known length.
C16_Witness ==
    /\ state.len \notin {0, MaxU64} /\ state.pos > state.len
    /\ obs.ret = <<fraction(state)>>

\* -------------------------------------------------------------------- C17

\* C17 as claimed: whenever a driver is recorded or its loop is live, the
\* interval is non-zero, the bar is not Finished and an owning handle exists.
C17_DriverOnlyWhileEnabled ==
    (LiveDrivers # {} \/ state.tick_thread # None)
    => /\ state.steady_tick # 0
       /\ ~is_finished(state)
       /\ NumOwning >= 1

\* A live driver is the recorded one; a recorded driver is live while the cell
\* exists and its Mutex is not poisoned.
RecordedIsLive ==
    /\ LiveDrivers # {} => state.tick_thread \in LiveDrivers
    /\ (state.tick_thread # None /\ ~poisoned /\ strong > 0) => LiveDrivers # {}

\* C17 as amended: the driver is stopped cooperatively.  A live driver is
\* the one recorded in tick_thread, and while the cell exists and is not
\* poisoned a recorded driver is live.  A driver comes into existence only in
\* an enable_steady_tick(ms) call that finds none recorded, for every ms, 0
\* (disable_steady_tick) included.  A driver may stay alive after the
\* interval became 0, the bar Finished or the last handle was dropped, but
\* only until its next wake: at that wake it leaves the loop without ticking
\* or drawing.
C17_DriverUntilNextWake ==
    [][ /\ RecordedIsLive'
        /\ \A d \in Drivers :
             /\ (drv[d] = "none" /\ drv'[d] # "none")
                => /\ state.tick_thread = None /\ state'.tick_thread = d
                   /\ \E t \in Threads :
                        /\ thr[t].pc = "idle" /\ thr'[t].pc = "gap"
                        /\ thr'[t].op = "enable_steady_tick"
                        /\ state'.steady_tick = thr'[t].arg
             /\ (/\ drv[d] = "upgraded" /\ drv'[d] # drv[d]
                 /\ (state.status = "Finished" \/ state.steady_tick = 0))
                => /\ drv'[d] = "none"
                   /\ state'.tick = state.tick
                   /\ obs'.write = "none"
             /\ (/\ drv[d] = "sleep" /\ drv'[d] # drv[d]
                 /\ NumOwning = 0)
                => drv'[d] = "none"
      ]_vars

\* disable_steady_tick on a bar that never had a driver has spawned one: it
\* is asleep, recorded, with the interval 0.
C17_Witness ==
    /\ OnlyEnables /\ calls = 1
    /\ state.steady_tick = 0 /\ state.tick_thread # None
    /\ \E d \in Drivers : drv[d] = "sleep"

\* -------------------------------------------------------------------- C18

\* The step in which driver d, holding the lock, finds the bar unfinished and
\* the interval non-zero.
DriverTicks(d) == drv[d] = "upgraded" /\ drv'[d] = "draw"

\* C18 as claimed: at every such wake the tick counter goes up by one
\* (saturating), whatever its value.
C18_DriverAlwaysTicks ==
    [][ \A d \in Drivers :
          DriverTicks(d) => state'.tick = Min(state.tick + 1, MaxU64)
      ]_vars

\* C18 as amended: at every wake at which the bar exists, is not Finished
\* and has a non-zero interval, the driver goes on to its draw, and it
\* advances the tick counter by one (saturating) only if the counter is not 0;
\* a counter still at 0 is left at 0, and nothing else of the record changes.
C18_DriverTicksIfStarted ==
    [][ \A d \in Drivers :
          /\ DriverTicks(d)
             => state' = [state EXCEPT !.tick = IF state.tick = 0 THEN 0
                                                ELSE Min(state.tick + 1, MaxU64)]
          /\ (/\ drv[d] = "upgraded" /\ drv'[d] # drv[d]
              /\ ~poisoned /\ state.status # "Finished" /\ state.steady_tick # 0)
             => DriverTicks(d)
      ]_vars

\* The driver woke before the first tick of the bar: it holds the lock, is
\* about to draw, and the counter is still 0.
C18_Witness ==
    /\ state.tick = 0 /\ state.steady_tick # 0
    /\ \E d \in Drivers : drv[d] = "draw"

\* -------------------------------------------------------------------- C19

\* Driver d makes its draw attempt in this step.
DriverAttempt(d) == drv[d] = "draw" /\ drv'[d] # "draw"

\* C19 as stated: the driver's draw paints whatever the throttle says.
C19_DriverForcesDraw ==
    [][ \A d \in Drivers :
          (DriverAttempt(d) /\ draw_target = "term") => obs'.write # "none"
      ]_vars

\* C19 as amended: the driver's draw is not forced.  On a direct target it
\* paints if and only if the refresh interval has elapsed since the target's
\* last draw, on a hidden target never; painted or not, the driver goes back
\* to sleep and its loop goes on.
C19_DriverDrawIsThrottled ==
    [][ \A d \in Drivers : DriverAttempt(d) =>
          /\ drv'[d] = "sleep"
          /\ draw_target = "term" =>
               (obs'.write # "none" <=> clock - last_draw >= RefreshInterval)
          /\ draw_target = "hidden" => obs'.write = "none"
      ]_vars

\* enable_steady_tick was the only call; the driver has ticked and made its
\* draw attempt at the instant the terminal target was created, and sleeps.
C19_Witness ==
    /\ draw_target = "term" /\ target_id = 0
    /\ calls = 1 /\ state.tick_thread # None /\ state.tick = 2
    /\ clock = 0 /\ upaint = -1
    /\ \E d \in Drivers : drv[d] = "sleep"

\* -------------------------------------------------------------------- C20

\* C20: every enable_steady_tick call ticks before it returns: a call that
\* finds a driver recorded goes on to its tick as well, and the update of the
\* call's tick advances the counter by one (saturating), whatever the counter
\* and the interval.
C20_EnableAlwaysTicks ==
    [][ /\ (/\ state.tick_thread # None /\ state'.tick_thread # None
            /\ state'.steady_tick # state.steady_tick)
           => \E t \in Threads :
                thr'[t].op = "enable_steady_tick" /\ thr'[t] # thr[t]
        /\ \A t \in Threads :
             (/\ thr[t].op = "enable_steady_tick"
              /\ thr[t].pc = "locked" /\ thr'[t].pc = "draw")
             => state'.tick = Min(state.tick + 1, MaxU64)
      ]_vars

\* -------------------------------------------------------------------- C21

\* C21: the driver tests and acts in one critical section.  A driver that
\* ticks found the bar unfinished and the interval non-zero in the state it
\* ticks, and changes the tick counter only; while it is at its draw, holding
\* the guard, the bar stays unfinished with a non-zero interval and the record
\* is changed by nobody, so the bar it draws is the one it tested; and a
\* driver that finds the bar Finished or the interval 0 writes nothing, sets
\* the interval to 0, clears tick_thread, leaves the loop, and changes
\* nothing else of the record.
C21_DriverRevalidatesUnderLock ==
    [][ \A d \in Drivers :
          /\ DriverTicks(d) =>
               /\ state.status # "Finished" /\ state.steady_tick # 0
               /\ \E k \in {state.tick, Min(state.tick + 1, MaxU64)} :
                    state' = [state EXCEPT !.tick = k]
          /\ drv'[d] = "draw" =>
               state'.status # "Finished" /\ state'.steady_tick # 0
          /\ drv[d] = "draw" =>
               /\ state' = state
               /\ \A t \in Threads : thr'[t].pc \notin {"locked", "draw", "thunk"}
          /\ (drv[d] = "upgraded" /\ drv'[d] = "none" /\ ~poisoned) =>
               /\ state.status = "Finished" \/ state.steady_tick = 0
               /\ state' = [state EXCEPT !.steady_tick = 0, !.tick_thread = None]
               /\ obs'.write = "none"
      ]_vars

\* The race: the driver has woken and waits for the lock while a finish,
\* holding it, has just marked the bar Finished; the interval is still
\* non-zero.
C21_Witness ==
    /\ state.status = "Finished" /\ state.steady_tick # 0
    /\ \E d \in Drivers : drv[d] = "upgraded"
    /\ \E t \in Threads : thr[t].op = "finish" /\ thr[t].pc = "draw"

\* -------------------------------------------------------------------- C22

\* Some thread is at lock() on the Mutex it holds.
Relocked == \E t \in Threads : thr[t].pc = "relock"

\* Steady ticking is asked for and nothing has ended it: the interval is
\* non-zero, the bar is unfinished, a handle exists.
SteadyWanted ==
    /\ state.steady_tick > 0
    /\ state.status # "Finished"
    /\ NumOwning >= 1

\* A driver is at its draw, having ticked a started counter, and will sleep
\* the interval last asked for.
DriverAtDraw ==
    \E d \in Drivers :
        /\ drv[d] = "draw"
        /\ sleep_ms[d] = state.steady_tick
        /\ state.tick > 0

InCall(t) == thr[t].pc \in {"locked", "draw", "gap", "thunk"}

\* Thread t is between calls, or has panicked.
Returned(t) == thr[t].pc \in {"idle", "dead"}

====
